---- MODULE Spec2Model ----
(***************************************************************************)
(* A model of overlay_logos.py: one call of overlay_logos (probe the       *)
(* background video, load and resize two logos, prepare the output path,   *)
(* stream every frame through process_video, close the writer), followed   *)
(* by further calls with the same arguments on the same filesystem.        *)
(*                                                                         *)
(* Arithmetic.  resize_with_aspect_ratio computes in double precision:     *)
(* aspect_ratio = w / h, int(target_width / aspect_ratio) and              *)
(* int(target_height * aspect_ratio).  The model computes the same two     *)
(* correctly rounded IEEE-754 operations in integers: the rounding error   *)
(* of w / h is the remainder of w * 2^s by h, and it decides whether the   *)
(* second operation lands on or just below an exact integer quotient       *)
(* (9 / (9/7) = 6.999..., truncated to 6).  The integer formulas are       *)
(* those of the doubles for all image and box sides below 2^15.            *)
(***************************************************************************)
EXTENDS Integers, Sequences, FiniteSets, TLC

\* ---------------------------------------------------------------- bounds
MaxFrameDim == 3        \* frame widths and heights of the pipeline runs
MaxScale == 2           \* scale factors 1..MaxScale
MaxLogoDim == 2         \* logo image widths and heights of the pipeline runs
MaxFrames == 2          \* frames in the background video
MaxResizeFrameDim == 9  \* frame sides of the resize-only specification
MaxResizeLogoDim == 9   \* image sides of the resize-only specification

VARIABLES
    background,     \* the file at the background path
    left_logo,      \* the file at the left-logo path
    right_logo,     \* the file at the right-logo path
    scale_factor,
    dirExists,      \* os.path.exists(output_dir)
    outFile,        \* the file at output_path: [exists, frames]
    pc,             \* the statement overlay_logos / process_video is at
    raised,         \* the exception that left overlay_logos, if any
    probe,          \* the VideoCapture of overlay_logos (lines 100-107)
    frame_width, frame_height, fps,
    logo1, logo2,   \* the resized logos with their returned width and height
    writer,         \* the imageio writer: "none", "open", "closed"
    appended,       \* the frames handed to writer.append_data, in call order
    video,          \* the VideoCapture of process_video: [state, pos]
    frame,          \* the frame process_video holds: <<>> or <<f>>
    rerun,          \* overlay_logos was called before with these arguments
    fs0,            \* dirExists and outFile when this call started
    prevFrames      \* the frames at output_path when the previous call ended

vars == <<background, left_logo, right_logo, scale_factor, dirExists, outFile,
          pc, raised, probe, frame_width, frame_height, fps, logo1, logo2,
          writer, appended, video, frame, rerun, fs0, prevFrames>>

inputs == <<background, left_logo, right_logo, scale_factor>>

\* ------------------------------------------------------------ the inputs
Max(a, b) == IF a >= b THEN a ELSE b
Min(a, b) == IF a <= b THEN a ELSE b

FrameRates == {30}
\* cv2.imread(..., IMREAD_UNCHANGED) keeps the file's channels: BGR or BGRA
Channels == {3, 4}

NoVideo == [exists |-> FALSE, opens |-> FALSE, width |-> 0, height |-> 0,
            frames |-> 0, fps |-> 0]
BadVideo == [NoVideo EXCEPT !.exists = TRUE]
VideoFiles(maxDim) ==
    {NoVideo, BadVideo} \cup
    [exists : {TRUE}, opens : {TRUE}, width : 1..maxDim, height : 1..maxDim,
     frames : 0..MaxFrames, fps : FrameRates]

NoImage == [exists |-> FALSE, decodes |-> FALSE, width |-> 0, height |-> 0,
            channels |-> 0]
BadImage == [NoImage EXCEPT !.exists = TRUE]
ImageFiles(maxDim) ==
    {NoImage, BadImage} \cup
    [exists : {TRUE}, decodes : {TRUE}, width : 1..maxDim, height : 1..maxDim,
     channels : Channels]

NoFile == [exists |-> FALSE, frames |-> <<>>]
\* what a file left at output_path by something else holds
StaleFile == [exists |-> TRUE, frames |-> <<"stale">>]

NoLogo == [loaded |-> FALSE, width |-> 0, height |-> 0, channels |-> 0]
NoError == [type |-> "none", site |-> "none"]
NoCapture == [state |-> "none", pos |-> 0]

\* ------------------------------------------------- load_and_resize_logo
RECURSIVE Log2Floor(_)
Log2Floor(n) == IF n < 2 THEN 0 ELSE 1 + Log2Floor(n \div 2)
RECURSIVE PowMod2(_, _)
PowMod2(s, m) == IF s = 0 THEN 1 % m ELSE (2 * PowMod2(s - 1, m)) % m

\* aspect_ratio = image.shape[1] / image.shape[0] (line 38) as a double: the
\* 53-bit significand M = round(w * 2^s / h) with s = 52 - aspect_exponent.
\* aspect_remainder is (w * 2^s) mod h: 0 when w / h is exact, above h / 2
\* when the double is above w / h (by (h - rem) / (h * 2^s)), below h / 2 when
\* it is below w / h (by rem / (h * 2^s)).  A tie cannot occur for h < 2^32.
aspect_exponent(w, h) ==
    IF w >= h THEN Log2Floor(w \div h)
    ELSE 0 - (Log2Floor((h - 1) \div w) + 1)
aspect_remainder(w, h) == (w * PowMod2(52 - aspect_exponent(w, h), h)) % h

\* the spacing of the doubles just below the integer k >= 1 is
\* 2^(Log2Floor(k) - 52), halved when k is a power of two
HalvedBelow(k) == IF k = 2 ^ Log2Floor(k) THEN 1 ELSE 0

\* int(t / aspect_ratio) for w > h (line 41).  The quotient by the double is
\* within 2^-21 of t * h / w, so the truncation is floor(t * h / w) unless
\* t * h / w is an integer k; then the result is k, or k - 1 when the double
\* ratio is above w / h by enough that the rounded quotient is below k.
int_div_aspect(t, w, h) ==
    LET k == (t * h) \div w
        e == aspect_exponent(w, h)
        rem == aspect_remainder(w, h)
    IN  IF /\ (t * h) % w = 0 /\ k > 0 /\ 2 * rem > h
           /\ k * (h - rem) * 2 ^ (1 + HalvedBelow(k) + e)
                 > w * 2 ^ Log2Floor(k)
        THEN k - 1 ELSE k

\* int(t * aspect_ratio) for w <= h (line 44): floor(t * w / h) unless
\* t * w / h is an integer k; then k, or k - 1 when the double ratio is below
\* w / h by enough that the rounded product is below k.
int_mul_aspect(t, w, h) ==
    LET k == (t * w) \div h
        j == 0 - aspect_exponent(w, h)
        rem == aspect_remainder(w, h)
    IN  IF /\ (t * w) % h = 0 /\ k > 0 /\ rem # 0 /\ 2 * rem < h
           /\ t * rem * 2 ^ (1 + HalvedBelow(k)) > h * 2 ^ (Log2Floor(k) + j)
        THEN k - 1 ELSE k

\* resize_with_aspect_ratio (lines 37-46) on an image w x h and a target box:
\* <<new_width, new_height>>.  aspect_ratio > 1 iff w > h.
resize_rounding(w, h, target_width, target_height) ==
    IF w > h
    THEN <<target_width, (2 * target_width * h + w) \div (2 * w)>>
    ELSE <<(2 * target_height * w + h) \div (2 * h), target_height>>

resize_with_aspect_ratio(w, h, target_width, target_height) ==
    IF w > h
    THEN <<target_width, int_div_aspect(target_width, w, h)>>
    ELSE <<int_mul_aspect(target_height, w, h), target_height>>

\* lines 34-49 on a decoded image: frame_width // scale_factor divides by
\* zero for scale_factor = 0; a negative scale_factor gives a negative box,
\* hence a negative size; cv2.resize rejects a size with a side <= 0.
resize_logo(img, fw, fh, sf) ==
    IF sf = 0 THEN [error |-> "ZeroDivisionError", logo |-> NoLogo]
    ELSE IF sf < 0 THEN [error |-> "cv2.error", logo |-> NoLogo]
    ELSE LET d == resize_with_aspect_ratio(img.width, img.height,
                                           fw \div sf, fh \div sf)
         IN  IF d[1] <= 0 \/ d[2] <= 0
             THEN [error |-> "cv2.error", logo |-> NoLogo]
             ELSE [error |-> "none",
                   logo |-> [loaded |-> TRUE, width |-> d[1], height |-> d[2],
                             channels |-> img.channels]]

\* load_and_resize_logo (lines 27-49): the exception it raises, or the resized
\* logo.
load_without_checks(img, fw, fh, sf) ==
    IF ~img.exists \/ ~img.decodes
    THEN [error |-> "AttributeError", logo |-> NoLogo]
    ELSE resize_logo(img, fw, fh, sf)

load_and_resize_logo(img, fw, fh, sf) ==
    IF ~img.exists THEN [error |-> "FileNotFoundError", logo |-> NoLogo]
    ELSE IF ~img.decodes THEN [error |-> "FileNotFoundError", logo |-> NoLogo]
    ELSE resize_logo(img, fw, fh, sf)

\* ------------------------------------------------------------ the frames
\* the k-th frame video.read() decodes: frame_height x frame_width, 3 channels
Decoded(k, fw, fh) ==
    [index |-> k, order |-> "BGR",
     pixels |-> [p \in (0..(fh - 1)) \X (0..(fw - 1)) |-> "bg"]]

\* Python's slice.indices for a[start:stop] on an axis of the given length
SliceBound(i, len) == IF i < 0 THEN Max(i + len, 0) ELSE Min(i, len)
SliceFrom(start, stop, len) == SliceBound(start, len)
SliceTo(start, stop, len) == Max(SliceBound(stop, len), SliceBound(start, len))

\* numpy: a value of shape src can be assigned to a target of shape dst
Broadcastable(src, dst) ==
    /\ Len(src) <= Len(dst)
    /\ \A i \in 1..Len(src) :
          LET d == dst[Len(dst) - Len(src) + i] IN src[i] = d \/ src[i] = 1

\* frame[y:y+h, x:x+w] = logo (lines 73 and 77): the rows and columns the
\* slice selects, and whether numpy accepts the assignment
PasteRows(f, y, h) ==
    LET n == Cardinality({p[1] : p \in DOMAIN f.pixels})
    IN  SliceFrom(y, y + h, n) .. (SliceTo(y, y + h, n) - 1)
PasteCols(f, x, w) ==
    LET n == Cardinality({p[2] : p \in DOMAIN f.pixels})
    IN  SliceFrom(x, x + w, n) .. (SliceTo(x, x + w, n) - 1)
PasteOk(f, logo, x, y) ==
    Broadcastable(<<logo.height, logo.width, logo.channels>>,
                  <<Cardinality(PasteRows(f, y, logo.height)),
                    Cardinality(PasteCols(f, x, logo.width)), 3>>)
Paste(f, logo, tag, x, y) ==
    [f EXCEPT !.pixels =
        [p \in DOMAIN f.pixels |->
            IF /\ p[1] \in PasteRows(f, y, logo.height)
               /\ p[2] \in PasteCols(f, x, logo.width)
            THEN tag ELSE f.pixels[p]]]

overlay_x1 == frame_width \div 4 - logo1.width \div 2
overlay_y1 == frame_height \div 2 - logo1.height \div 2
overlay_x2 == (frame_width * 3) \div 4 - logo2.width \div 2
overlay_y2 == frame_height \div 2 - logo2.height \div 2

\* cv2.cvtColor(frame, cv2.COLOR_BGR2RGB): a converted copy
cvtColor(f) == [f EXCEPT !.order = IF @ = "BGR" THEN "RGB" ELSE "BGR"]

\* ------------------------------------------------------------------ Init
Fresh ==
    /\ pc = "check_background"
    /\ raised = NoError
    /\ probe = "none"
    /\ frame_width = 0 /\ frame_height = 0 /\ fps = 0
    /\ logo1 = NoLogo /\ logo2 = NoLogo
    /\ writer = "none"
    /\ appended = <<>>
    /\ video = NoCapture
    /\ frame = <<>>

Init ==
    /\ background \in VideoFiles(MaxFrameDim)
    /\ left_logo \in ImageFiles(MaxLogoDim)
    /\ right_logo \in ImageFiles(MaxLogoDim)
    /\ scale_factor \in 0..MaxScale
    /\ dirExists \in BOOLEAN
    /\ outFile \in (IF dirExists THEN {NoFile, StaleFile} ELSE {NoFile})
    /\ Fresh
    /\ rerun = FALSE
    /\ fs0 = <<dirExists, outFile>>
    /\ prevFrames = <<>>

\* --------------------------------------------------------- overlay_logos
Raise(type, site) ==
    /\ pc' = "raised"
    /\ raised' = [type |-> type, site |-> site]

\* lines 97-98
CheckBackground ==
    /\ pc = "check_background"
    /\ IF ~background.exists
       THEN Raise("FileNotFoundError", "check_background")
       ELSE pc' = "probe_open" /\ UNCHANGED raised
    /\ UNCHANGED <<inputs, dirExists, outFile, probe, frame_width,
                   frame_height, fps, logo1, logo2, writer, appended, video,
                   frame, rerun, fs0, prevFrames>>

\* lines 100-102
ProbeOpen ==
    /\ pc = "probe_open"
    /\ IF ~background.opens
       THEN Raise("FileNotFoundError", "probe_open") /\ UNCHANGED probe
       ELSE pc' = "probe_read" /\ probe' = "open" /\ UNCHANGED raised
    /\ UNCHANGED <<inputs, dirExists, outFile, frame_width, frame_height,
                   fps, logo1, logo2, writer, appended, video, frame, rerun,
                   fs0, prevFrames>>

\* lines 104-107
ProbeRead ==
    /\ pc = "probe_read"
    /\ frame_width' = background.width
    /\ frame_height' = background.height
    /\ fps' = background.fps
    /\ probe' = "released"
    /\ pc' = "load_left"
    /\ UNCHANGED <<inputs, dirExists, outFile, raised, logo1, logo2, writer,
                   appended, video, frame, rerun, fs0, prevFrames>>

\* line 109
LoadLeft ==
    /\ pc = "load_left"
    /\ LET r == load_and_resize_logo(left_logo, frame_width, frame_height,
                                     scale_factor)
       IN  IF r.error # "none"
           THEN Raise(r.error, "load_left") /\ UNCHANGED logo1
           ELSE pc' = "load_right" /\ logo1' = r.logo /\ UNCHANGED raised
    /\ UNCHANGED <<inputs, dirExists, outFile, probe, frame_width,
                   frame_height, fps, logo2, writer, appended, video, frame,
                   rerun, fs0, prevFrames>>

\* line 110
LoadRight ==
    /\ pc = "load_right"
    /\ LET r == load_and_resize_logo(right_logo, frame_width, frame_height,
                                     scale_factor)
       IN  IF r.error # "none"
           THEN Raise(r.error, "load_right") /\ UNCHANGED logo2
           ELSE pc' = "makedirs" /\ logo2' = r.logo /\ UNCHANGED raised
    /\ UNCHANGED <<inputs, dirExists, outFile, probe, frame_width,
                   frame_height, fps, logo1, writer, appended, video, frame,
                   rerun, fs0, prevFrames>>

\* lines 112-114
MakeDirs ==
    /\ pc = "makedirs"
    /\ dirExists' = TRUE
    /\ pc' = "remove"
    /\ UNCHANGED <<inputs, outFile, raised, probe, frame_width, frame_height,
                   fps, logo1, logo2, writer, appended, video, frame, rerun,
                   fs0, prevFrames>>

\* lines 116-117
RemoveStaleSkipped ==
    /\ pc = "remove"
    /\ pc' = "get_writer"
    /\ UNCHANGED <<inputs, dirExists, outFile, raised, probe, frame_width,
                   frame_height, fps, logo1, logo2, writer, appended, video,
                   frame, rerun, fs0, prevFrames>>

RemoveStale ==
    /\ pc = "remove"
    /\ outFile' = IF outFile.exists THEN NoFile ELSE outFile
    /\ pc' = "get_writer"
    /\ UNCHANGED <<inputs, dirExists, raised, probe, frame_width,
                   frame_height, fps, logo1, logo2, writer, appended, video,
                   frame, rerun, fs0, prevFrames>>

\* line 119.  Whether the writer creates the file when it is opened or when
\* the first frame arrives is the library's choice: both are allowed.  A
\* writer opened on a path that holds a file continues that file.
GetWriter ==
    /\ pc = "get_writer"
    /\ writer' = "open"
    /\ \E create \in BOOLEAN :
          outFile' = IF create THEN [outFile EXCEPT !.exists = TRUE]
                     ELSE outFile
    /\ pc' = "open_video"
    /\ UNCHANGED <<inputs, dirExists, raised, probe, frame_width,
                   frame_height, fps, logo1, logo2, appended, video, frame,
                   rerun, fs0, prevFrames>>

\* --------------------------------------------------------- process_video
\* line 64
OpenVideo ==
    /\ pc = "open_video"
    /\ video' = [state |-> "open", pos |-> 0]
    /\ pc' = "read"
    /\ UNCHANGED <<inputs, dirExists, outFile, raised, probe, frame_width,
                   frame_height, fps, logo1, logo2, writer, appended, frame,
                   rerun, fs0, prevFrames>>

\* lines 67-69: the next frame, or ret = False at the end of the stream
ReadFrameFailing ==
    /\ pc = "read"
    /\ IF video.pos < background.frames
       THEN /\ frame' = <<Decoded(video.pos + 1, background.width,
                                  background.height)>>
            /\ video' = [video EXCEPT !.pos = @ + 1]
            /\ pc' = "paste_left"
            /\ UNCHANGED raised
       ELSE /\ Raise("EOFError", "read")
            /\ UNCHANGED <<frame, video>>
    /\ UNCHANGED <<inputs, dirExists, outFile, probe, frame_width,
                   frame_height, fps, logo1, logo2, writer, appended, rerun,
                   fs0, prevFrames>>

ReadFrame ==
    /\ pc = "read"
    /\ IF video.pos < background.frames
       THEN /\ frame' = <<Decoded(video.pos + 1, background.width,
                                  background.height)>>
            /\ video' = [video EXCEPT !.pos = @ + 1]
            /\ pc' = "paste_left"
       ELSE /\ frame' = <<>>
            /\ pc' = "release"
            /\ UNCHANGED video
    /\ UNCHANGED <<inputs, dirExists, outFile, raised, probe, frame_width,
                   frame_height, fps, logo1, logo2, writer, appended, rerun,
                   fs0, prevFrames>>

\* lines 71-73
PasteLeft ==
    /\ pc = "paste_left"
    /\ IF PasteOk(frame[1], logo1, overlay_x1, overlay_y1)
       THEN /\ frame' = <<Paste(frame[1], logo1, "logo1", overlay_x1,
                                overlay_y1)>>
            /\ pc' = "paste_right"
            /\ UNCHANGED raised
       ELSE /\ Raise("ValueError", "paste_left")
            /\ UNCHANGED frame
    /\ UNCHANGED <<inputs, dirExists, outFile, probe, frame_width,
                   frame_height, fps, logo1, logo2, writer, appended, video,
                   rerun, fs0, prevFrames>>

\* lines 75-77
PasteRight ==
    /\ pc = "paste_right"
    /\ IF PasteOk(frame[1], logo2, overlay_x2, overlay_y2)
       THEN /\ frame' = <<Paste(frame[1], logo2, "logo2", overlay_x2,
                                overlay_y2)>>
            /\ pc' = "append"
            /\ UNCHANGED raised
       ELSE /\ Raise("ValueError", "paste_right")
            /\ UNCHANGED frame
    /\ UNCHANGED <<inputs, dirExists, outFile, probe, frame_width,
                   frame_height, fps, logo1, logo2, writer, appended, video,
                   rerun, fs0, prevFrames>>

\* line 79: the writer encodes the converted copy into the file
AppendData ==
    /\ pc = "append"
    /\ appended' = Append(appended, cvtColor(frame[1]))
    /\ outFile' = [exists |-> TRUE,
                   frames |-> Append(outFile.frames, cvtColor(frame[1]))]
    /\ pc' = "read"
    /\ UNCHANGED <<inputs, dirExists, raised, probe, frame_width,
                   frame_height, fps, logo1, logo2, writer, video, frame,
                   rerun, fs0, prevFrames>>

\* line 81
Release ==
    /\ pc = "release"
    /\ video' = [video EXCEPT !.state = "released"]
    /\ pc' = "close_writer"
    /\ UNCHANGED <<inputs, dirExists, outFile, raised, probe, frame_width,
                   frame_height, fps, logo1, logo2, writer, appended, frame,
                   rerun, fs0, prevFrames>>

\* lines 124-126
CloseWriter ==
    /\ pc = "close_writer"
    /\ writer' = "closed"
    /\ pc' = "done"
    /\ UNCHANGED <<inputs, dirExists, outFile, raised, probe, frame_width,
                   frame_height, fps, logo1, logo2, appended, video, frame,
                   rerun, fs0, prevFrames>>

\* ------------------------------------------------------- the next call
Ended == pc \in {"done", "raised"}
FileFrames(f) == IF f.exists THEN f.frames ELSE <<>>

\* overlay_logos is called again with the same arguments (example.py calls it
\* once per partner file; a second batch repeats every call)
Rerun ==
    /\ Ended
    /\ rerun' = TRUE
    /\ fs0' = <<dirExists, outFile>>
    /\ prevFrames' = FileFrames(outFile)
    /\ pc' = "check_background"
    /\ raised' = NoError
    /\ probe' = "none"
    /\ frame_width' = 0 /\ frame_height' = 0 /\ fps' = 0
    /\ logo1' = NoLogo /\ logo2' = NoLogo
    /\ writer' = "none"
    /\ appended' = <<>>
    /\ video' = NoCapture
    /\ frame' = <<>>
    /\ UNCHANGED <<inputs, dirExists, outFile>>

Next ==
    \/ CheckBackground \/ ProbeOpen \/ ProbeRead
    \/ LoadLeft \/ LoadRight
    \/ MakeDirs \/ RemoveStale \/ GetWriter
    \/ OpenVideo \/ ReadFrame \/ PasteLeft \/ PasteRight \/ AppendData
    \/ Release \/ CloseWriter
    \/ Rerun

Spec == Init /\ [][Next]_vars

\* ------------------------------------- the resize-only specification
\* load_and_resize_logo on a wider range of frame and image sizes: the probe
\* of an openable video followed by the load of the left logo
InitResize ==
    /\ background \in [exists : {TRUE}, opens : {TRUE},
                       width : 1..MaxResizeFrameDim,
                       height : 1..MaxResizeFrameDim,
                       frames : {0}, fps : FrameRates]
    /\ left_logo \in [exists : {TRUE}, decodes : {TRUE},
                      width : 1..MaxResizeLogoDim,
                      height : 1..MaxResizeLogoDim, channels : {3}]
    /\ right_logo = NoImage
    /\ scale_factor \in 0..MaxScale
    /\ dirExists = TRUE
    /\ outFile = NoFile
    /\ Fresh
    /\ rerun = FALSE
    /\ fs0 = <<dirExists, outFile>>
    /\ prevFrames = <<>>

NextResize == CheckBackground \/ ProbeOpen \/ ProbeRead \/ LoadLeft

SpecResize == InitResize /\ [][NextResize]_vars

\* ---------------------------------------------------------------- claims
box_width == frame_width \div scale_factor
box_height == frame_height \div scale_factor
LeftLoaded == pc = "load_right" /\ logo1.loaded

\* C1: the dimensions load_and_resize_logo returns are within the target box
\* on both axes, and equal to it on at least one.
C1_ResizedWithinBox ==
    LeftLoaded =>
        /\ logo1.width <= box_width
        /\ logo1.height <= box_height
        /\ (logo1.width = box_width \/ logo1.height = box_height)

LeftInside ==
    /\ 0 <= overlay_x1 /\ overlay_x1 + logo1.width <= frame_width
    /\ 0 <= overlay_y1 /\ overlay_y1 + logo1.height <= frame_height
RightInside ==
    /\ 0 <= overlay_x2 /\ overlay_x2 + logo2.width <= frame_width
    /\ 0 <= overlay_y2 /\ overlay_y2 + logo2.height <= frame_height

\* C2: for every frame process_video decodes, both pasted rectangles lie
\* inside the frame, and the frame keeps its width and height.
C2_PasteInsideFrame ==
    /\ pc = "paste_left" => LeftInside /\ RightInside
    /\ frame # <<>> =>
          DOMAIN frame[1].pixels =
              (0..(frame_height - 1)) \X (0..(frame_width - 1))

AnyPathMissing ==
    ~background.exists \/ ~left_logo.exists \/ ~right_logo.exists
NoOutputYet ==
    /\ pc \in {"check_background", "probe_open", "probe_read", "load_left",
               "load_right", "raised"}
    /\ writer = "none"
    /\ <<dirExists, outFile>> = fs0
LogosFirst ==
    (pc \in {"makedirs", "remove", "get_writer"} \/ writer # "none")
        => logo1.loaded /\ logo2.loaded

\* C3 as stated: with a missing background or logo path the call raises a
\* not-found error, nothing has been created, deleted or opened at that
\* moment, and both logos are loaded before the output path is touched.
C3_MissingPathNotFound ==
    /\ AnyPathMissing =>
          /\ NoOutputYet
          /\ pc = "raised" => raised.type = "FileNotFoundError"
    /\ LogosFirst

\* C3 as amended: the same, except that the error is the left logo's own
\* (ZeroDivisionError for scale factor 0, else cv2.error for an empty resized
\* size) when the left logo exists and decodes but cannot be resized, which
\* is raised before the right logo's path is looked at.
C3_MissingPathRaisesBeforeOutput ==
    /\ AnyPathMissing =>
          /\ NoOutputYet
          /\ pc = "raised" =>
                \/ raised.type = "FileNotFoundError"
                \/ /\ raised.site = "load_left"
                   /\ raised.type = (IF scale_factor = 0
                                     THEN "ZeroDivisionError" ELSE "cv2.error")
                   /\ left_logo.decodes /\ ~right_logo.exists
    /\ LogosFirst
C3_Witness ==
    /\ pc = "raised" /\ raised.site = "load_right"
    /\ raised.type = "FileNotFoundError"
    /\ left_logo.decodes /\ ~right_logo.exists
    /\ fs0[2] = StaleFile /\ outFile = StaleFile

Composited(k) ==
    cvtColor(Paste(Paste(Decoded(k, frame_width, frame_height), logo1,
                         "logo1", overlay_x1, overlay_y1),
                   logo2, "logo2", overlay_x2, overlay_y2))
LeftProcessVideo == pc \in {"close_writer", "done"} \/
                    (pc = "raised" /\ video.state # "none")

\* C4: every run of process_video over N frames hands the writer exactly the
\* N composited frames in decode order, and holds at most one frame.
C4_EveryFrameAppended ==
    /\ Len(frame) <= 1
    /\ \A k \in 1..Len(appended) : appended[k] = Composited(k)
    /\ LeftProcessVideo => Len(appended) = background.frames

C6_RerunSameOutput ==
    /\ (rerun /\ Ended) => FileFrames(outFile) = prevFrames
    /\ pc = "get_writer" => ~outFile.exists
C6_Witness ==
    /\ rerun /\ pc = "done"
    /\ Len(prevFrames) = 2 /\ fs0[2].exists
    /\ outFile.frames = prevFrames

\* C7: the probe's error for a file that exists but cannot be opened is of
\* another kind than the error for a missing path.
C7_DistinctProbeErrors ==
    (pc = "raised" /\ raised.site = "probe_open") =>
        raised.type # "FileNotFoundError"

\* C8 as stated: the axis that is not set to the box is the proportional size
\* rounded to the nearest integer.
C8_ResizeRounds ==
    LeftLoaded =>
        LET w == left_logo.width
            h == left_logo.height
        IN  IF w > h
            THEN /\ logo1.width = box_width
                 /\ 2 * logo1.height * w - 2 * box_width * h \in (0 - w)..w
            ELSE /\ logo1.height = box_height
                 /\ 2 * logo1.width * h - 2 * box_height * w \in (0 - h)..h

\* C8 as amended: the axis that is not set to the box is the proportional
\* size computed in doubles and truncated by int(): the floor of the exact
\* quotient, or one less where that quotient is an integer the double result
\* falls just below (only when the ratio w / h is not exact), so a 200x200
\* logo on a 1920x1080 frame with scale factor 4 becomes 270x270 and a 9x7
\* logo in a box 9 wide becomes 9x6; a side truncated to 0 is refused.
C8_ResizeTruncates ==
    /\ LeftLoaded =>
          LET w == left_logo.width
              h == left_logo.height
          IN  IF w > h
              THEN /\ logo1.width = box_width
                   /\ logo1.height * w <= box_width * h
                   /\ box_width * h <= (logo1.height + 1) * w
                   /\ w % h = 0 => box_width * h < (logo1.height + 1) * w
              ELSE /\ logo1.height = box_height
                   /\ logo1.width * h <= box_height * w
                   /\ box_height * w <= (logo1.width + 1) * h
                   /\ w = h => logo1.width = box_height
    /\ (left_logo.decodes /\ pc = "raised" /\ raised.site = "load_left"
        /\ scale_factor > 0) =>
          (IF left_logo.width > left_logo.height
           THEN box_width * left_logo.height <= left_logo.width
           ELSE box_height * left_logo.width <= left_logo.height)
    /\ resize_with_aspect_ratio(200, 200, 1920 \div 4, 1080 \div 4)
          = <<270, 270>>
    /\ resize_with_aspect_ratio(9, 7, 9, 9) = <<9, 6>>
\* the double quotient fell below an exact integer and was truncated
C8_Witness ==
    /\ LeftLoaded
    /\ left_logo.width > left_logo.height
    /\ (logo1.height + 1) * left_logo.width = box_width * left_logo.height

\* C9: a writer that was opened is closed once, after the last append, and no
\* call ends, by returning or by raising, with the writer or a VideoCapture
\* still open.
C9_NothingLeftOpen ==
    /\ writer = "closed" => pc = "done" /\ Len(appended) = background.frames
    /\ Ended => writer # "open" /\ probe # "open" /\ video.state # "open"

\* C10: a logo with a transparency channel, anchored inside the frame, is
\* pasted without error and every pixel of its rectangle takes the logo's
\* colour.
C10_AlphaLogoPasted ==
    /\ (logo1.channels = 4 /\ LeftInside) =>
          /\ ~(pc = "raised" /\ raised.site = "paste_left")
          /\ pc = "paste_right" =>
                \A p \in (overlay_y1..(overlay_y1 + logo1.height - 1)) \X
                         (overlay_x1..(overlay_x1 + logo1.width - 1)) :
                    frame[1].pixels[p] = "logo1"
    /\ (logo2.channels = 4 /\ RightInside) =>
          ~(pc = "raised" /\ raised.site = "paste_right")

====
